---- MODULE Spec2Model ----
(***************************************************************************)
(* PandaBrain (skills/brain/scripts/brain_core.py): a multi-head           *)
(* feed-forward network with bag-of-words vectorisation, momentum SGD,     *)
(* online learning and JSON persistence.                                   *)
(*                                                                         *)
(* Python floats are modelled as fixed-point integers: the integer n       *)
(* stands for the real number n / ONE.  Products and quotients round to    *)
(* the nearest unit.  A Python exception is modelled as the outcome        *)
(* "raise" of a call, with the state the call had reached when it raised.  *)
(***************************************************************************)
EXTENDS Integers, Sequences, FiniteSets, TLC

\* ------------------------------------------------------------------ bounds
MaxSteps == 3
NumSeeds == 2

\* ----------------------------------------------------------- fixed point
ONE == 10 * 10 * 10

RoundDiv(n, d) ==
  IF n >= 0 THEN (2 * n + d) \div (2 * d) ELSE -((2 * (-n) + d) \div (2 * d))

Mul(a, b) == RoundDiv(a * b, ONE)

\* <<f(1), ..., f(n)>>, every entry computed once.
Tab(n, f(_)) ==
  LET t[k \in 0..n] == IF k = 0 THEN <<>> ELSE Append(t[k - 1], f(k))
  IN  IF n <= 0 THEN <<>> ELSE t[n]

\* The function name |-> f(name) over a sequence of distinct names.
MapOf(names, f(_)) ==
  LET m[k \in 1..Len(names)] ==
        IF k = 1 THEN names[1] :> f(names[1]) ELSE m[k - 1] @@ (names[k] :> f(names[k]))
  IN  IF names = <<>> THEN <<>> ELSE m[Len(names)]

Zeros(n) == Tab(n, LAMBDA k : 0)

ZeroMat(r, c) == Tab(r, LAMBDA i : Zeros(c))

RECURSIVE SumSeq(_)
SumSeq(s) == IF s = <<>> THEN 0 ELSE s[1] + SumSeq(Tail(s))

MaxSeq(s) == CHOOSE m \in {s[k] : k \in 1..Len(s)} : \A k \in 1..Len(s) : s[k] <= m

relu(x) == IF x > 0 THEN x ELSE 0

relu_derivative(x) == IF x > 0 THEN ONE ELSE 0

\* math.exp(d) for d <= 0, as the rational 1 / (1 + t + t^2/2) with t = -d:
\* 1 at d = 0, positive and decreasing, 0 below the fixed-point resolution.
ExpCap == 10 * ONE
Exp(d) ==
  LET t == -d
  IN  IF t > ExpCap THEN 0
      ELSE (2 * ONE * ONE * ONE) \div (2 * ONE * ONE + 2 * ONE * t + t * t)

\* exps = [math.exp(v - max_val) for v in logits]
Exps(logits, max_val) == Tab(Len(logits), LAMBDA k : Exp(logits[k] - max_val))

\* A division by the largest exponential instead of the total.
NormalizedByMax(exps) == Tab(Len(exps), LAMBDA k : RoundDiv(exps[k] * ONE, MaxSeq(exps)))

\* [e / total for e in exps] with total = sum(exps)
Normalized(exps) == Tab(Len(exps), LAMBDA k : RoundDiv(exps[k] * ONE, SumSeq(exps)))

softmax(logits) == Normalized(Exps(logits, MaxSeq(logits)))

\* random.uniform(-limit, limit) per entry; the seed stands for the state of
\* the random generator.  Every entry lies strictly inside (-ONE, ONE).
xavier_init(seed, fan_in, fan_out) ==
  Tab(fan_in, LAMBDA i :
    Tab(fan_out, LAMBDA j : (((seed * 7 + i * 3 + j * 2 + fan_out) % 5) - 2) * (ONE \div 4)))

\* ------------------------------------------------------ text preprocessing
\* A text is a sequence of whitespace-separated raw words.  tokenize lowercases
\* and deletes every character that is neither a word character nor space, so
\* a raw word turns into its token, and a word of punctuation alone vanishes.
Normalize(word) ==
  CASE word = "Hi!"  -> "hi"
    [] word = "BYE"  -> "bye"
    [] word = "?!"   -> ""
    [] OTHER         -> word

RECURSIVE tokenize(_)
tokenize(text) ==
  IF text = <<>> THEN <<>>
  ELSE IF Normalize(text[1]) = "" THEN tokenize(Tail(text))
  ELSE <<Normalize(text[1])>> \o tokenize(Tail(text))

RECURSIVE Concat(_)
Concat(ss) == IF ss = <<>> THEN <<>> ELSE ss[1] \o Concat(Tail(ss))

Count(tok, toks) == Cardinality({k \in 1..Len(toks) : toks[k] = tok})

FirstPos(tok, toks) ==
  CHOOSE k \in 1..Len(toks) : toks[k] = tok /\ \A m \in 1..(k - 1) : toks[m] # tok

TokenSet(toks) == {toks[k] : k \in 1..Len(toks)}

\* Counter.most_common: descending count, equal counts in first-seen order.
\* Rank is the 0-based position of tok in that order.
Rank(tok, toks) ==
  Cardinality({u \in TokenSet(toks) :
                 \/ Count(u, toks) > Count(tok, toks)
                 \/ /\ Count(u, toks) = Count(tok, toks)
                    /\ FirstPos(u, toks) < FirstPos(tok, toks)})

\* A vocabulary in first-seen order, whatever the counts.
VocabOfFirstSeen(toks, max_vocab) ==
  [u \in {v \in TokenSet(toks) :
            Cardinality({w \in TokenSet(toks) : FirstPos(w, toks) < FirstPos(v, toks)})
              < max_vocab} |->
     Cardinality({w \in TokenSet(toks) : FirstPos(w, toks) < FirstPos(u, toks)})]

\* Lines 86-87 for the corpus' tokens in order.
VocabOf(toks, max_vocab) ==
  [u \in {v \in TokenSet(toks) : Rank(v, toks) < max_vocab} |-> Rank(u, toks)]

build_vocabulary(texts, max_vocab) ==
  VocabOf(Concat(Tab(Len(texts), LAMBDA k : tokenize(texts[k]))), max_vocab)

VocabLen(vocab) == Cardinality(DOMAIN vocab)

\* vec[vocab[token]] = ... raises IndexError when the index is not a position
\* of zeros(len(vocab)); indices are 0-based in the code, 1-based here.
VectorRaises(text, vocab) ==
  \E u \in TokenSet(tokenize(text)) \cap DOMAIN vocab : vocab[u] >= VocabLen(vocab)

\* The in-vocabulary tokens of the text written to position k of vec.
Hits(tokens, vocab, k) == {u \in TokenSet(tokens) \cap DOMAIN vocab : vocab[u] = k - 1}

\* token_counts is iterated in first-seen order: the last write stays.
LastSeen(hits, tokens) ==
  CHOOSE u \in hits : \A v \in hits : FirstPos(v, tokens) <= FirstPos(u, tokens)

\* A frequency relative to the number of distinct tokens.
TermFrequencyDistinct(hits, tokens) ==
  IF hits = {} THEN 0
  ELSE RoundDiv(Count(LastSeen(hits, tokens), tokens) * ONE,
                Cardinality(TokenSet(tokens)))

\* count / total, total = len(tokens) if tokens else 1
TermFrequency(hits, tokens) ==
  IF hits = {} THEN 0
  ELSE RoundDiv(Count(LastSeen(hits, tokens), tokens) * ONE,
                IF Len(tokens) > 0 THEN Len(tokens) ELSE 1)

VectorOf(tokens, vocab) ==
  Tab(VocabLen(vocab), LAMBDA k : TermFrequency(Hits(tokens, vocab, k), tokens))

text_to_vector(text, vocab) == VectorOf(tokenize(text), vocab)

\* ------------------------------------------------------------ configuration
\* model_config.json: the architecture and the three label lists that
\* __init__ reads.  output_heads (name -> size, head_order its key order) and
\* the label lists are given independently of each other.
CfgStd ==
  [input_size       |-> 2,
   hidden_size      |-> 2,
   output_heads     |-> [intent |-> 2, sentiment |-> 2],
   head_order       |-> <<"intent", "sentiment">>,
   learning_rate    |-> ONE \div 5,
   intent_labels    |-> <<"greet", "ask">>,
   sentiment_labels |-> <<"pos", "neg">>,
   preference_labels |-> <<>>]

\* A configuration whose only head is "tone".  __init__ still reads the three
\* label lists; the list written for "tone" is a key that it never reads.
CfgTone ==
  [input_size       |-> 2,
   hidden_size      |-> 2,
   output_heads     |-> [tone |-> 2],
   head_order       |-> <<"tone">>,
   learning_rate    |-> ONE \div 5,
   intent_labels    |-> <<>>,
   sentiment_labels |-> <<"pos", "neg">>,
   preference_labels |-> <<>>,
   tone_labels      |-> <<"up", "down">>]

\* A configuration whose intent head is smaller than its label list: the two
\* are separate keys of the file.
CfgShort ==
  [input_size       |-> 2,
   hidden_size      |-> 2,
   output_heads     |-> [intent |-> 1],
   head_order       |-> <<"intent">>,
   learning_rate    |-> ONE \div 5,
   intent_labels    |-> <<"greet", "ask">>,
   sentiment_labels |-> <<>>,
   preference_labels |-> <<>>]

Configs == {CfgStd, CfgTone, CfgShort}

VARIABLES
  cfg,            \* the configuration the model was constructed with
  w1, b1,         \* hidden layer
  heads,          \* head name -> [w, b]
  vw1, vb1,       \* momentum buffers of the hidden layer
  v_heads,        \* head name -> [w, b] momentum buffers
  vocab,          \* token -> index
  learning_rate,
  disk,           \* contents of the weights file
  last,           \* the last call: operation, inputs, outcome, state before it
  everOK,         \* some train returned a loss history or some load returned True
  saved,          \* the state of the model that wrote the weights file
  steps,          \* number of calls made
  threads         \* thread -> the position and the locals of its call

vars == <<cfg, w1, b1, heads, vw1, vb1, v_heads, vocab, learning_rate, disk,
          last, everOK, saved, steps, threads>>

MOMENTUM == (9 * ONE) \div 10

\* The parameter store as one value.
Brain == [w1 |-> w1, b1 |-> b1, heads |-> heads,
          vw1 |-> vw1, vb1 |-> vb1, v_heads |-> v_heads]

\* ------------------------------------------------------------ forward pass
\* The index and key errors forward can raise: x, b1, w1 or a head shorter
\* than the configured loops read, or max() of an empty logits list.
HeadUnreadable(hd) ==
  \/ Len(hd.b) = 0
  \/ Len(hd.w) < cfg.hidden_size
  \/ \E i \in 1..cfg.hidden_size : i <= Len(hd.w) /\ Len(hd.w[i]) < Len(hd.b)

ForwardRaises(B, x) ==
  \/ Len(x) < cfg.input_size
  \/ Len(B.b1) < cfg.hidden_size
  \/ Len(B.w1) < cfg.input_size
  \/ \E i \in 1..cfg.input_size : i <= Len(B.w1) /\ Len(B.w1[i]) < cfg.hidden_size
  \/ \E name \in DOMAIN B.heads : HeadUnreadable(B.heads[name])

\* Lines 181-186: z1[j] = b1[j] + sum_i x[i] * w1[i][j]
HiddenPre(B, x) ==
  Tab(cfg.hidden_size, LAMBDA j :
    B.b1[j] + SumSeq(Tab(cfg.input_size, LAMBDA i : Mul(x[i], B.w1[i][j]))))

\* Line 188
Activations(z1) == Tab(Len(z1), LAMBDA j : relu(z1[j]))

\* Lines 193-201: logits[j] = b[j] + sum_i h[i] * w[i][j]
Logits(hd, h) ==
  Tab(Len(hd.b), LAMBDA j :
    hd.b[j] + SumSeq(Tab(cfg.hidden_size, LAMBDA i : Mul(h[i], hd.w[i][j]))))

ForwardResult(B, z1, h) ==
  [z1 |-> z1, hidden |-> h,
   outputs |-> MapOf(cfg.head_order, LAMBDA name : softmax(Logits(B.heads[name], h)))]

ForwardFrom(B, z1) == ForwardResult(B, z1, Activations(z1))

forward(B, x) == ForwardFrom(B, HiddenPre(B, x))

\* ----------------------------------------------------------- backward pass
\* targets is the dict {head_name: target_index} in insertion order: a
\* sequence of <<head_name, target_index>>, the index 0-based as in the code.
TargetNames(tgt) == {tgt[k][1] : k \in 1..Len(tgt)}

\* d_out = list(probs); d_out[target_idx] -= 1.0
OutputGradient(probs, idx) ==
  Tab(Len(probs), LAMBDA k : IF k = idx + 1 THEN probs[k] - ONE ELSE probs[k])

\* forward_result["outputs"][head_name] raises KeyError for a head that is not
\* configured, d_out[target_idx] raises IndexError past the head's size.
HeadRaises(fr, t) ==
  \/ t[1] \notin DOMAIN fr.outputs
  \/ t[2] >= Len(fr.outputs[t[1]])

\* A step without the momentum term.
VelocityPlain(v, grad, lr) == Mul(lr, grad)

\* velocity = momentum * velocity + lr * grad
Velocity(v, grad, lr) == Mul(MOMENTUM, v) + Mul(lr, grad)

\* The velocities of a weight matrix after the loops over range(rows) and
\* range(cols), the gradient of entry (i, j) being a[i] * d[j].
VelocityMat(v, a, d, rows, cols, lr) ==
  Tab(Len(v), LAMBDA i : Tab(Len(v[i]), LAMBDA j :
    IF i <= rows /\ j <= cols THEN Velocity(v[i][j], Mul(a[i], d[j]), lr) ELSE v[i][j]))

VelocityVec(v, d, n, lr) ==
  Tab(Len(v), LAMBDA j : IF j <= n THEN Velocity(v[j], d[j], lr) ELSE v[j])

\* parameter -= velocity
Descend(w, v, rows, cols) ==
  Tab(Len(w), LAMBDA i : Tab(Len(w[i]), LAMBDA j :
    IF i <= rows /\ j <= cols THEN w[i][j] - v[i][j] ELSE w[i][j]))

DescendVec(b, v, n) == Tab(Len(b), LAMBDA j : IF j <= n THEN b[j] - v[j] ELSE b[j])

\* The weight that line 242 multiplies into dh[i]: it is read after line 241
\* has written w[i][j], so it is the updated weight.
DhWeight(w_old, w_new, i, j) == w_new[i][j]

\* Line 242 summed over j for every hidden unit i.
HeadGradient(w_old, w_new, d_out, hs) ==
  Tab(cfg.hidden_size, LAMBDA i :
    SumSeq(Tab(hs, LAMBDA j : Mul(DhWeight(w_old, w_new, i, j), d_out[j]))))

AddVec(a, b) == Tab(Len(a), LAMBDA i : a[i] + b[i])

HeadInstall(B, dh, name, d_out, nvw, nvb, nw, nb) ==
  [B  |-> [B EXCEPT !.heads[name]   = [w |-> nw, b |-> nb],
                    !.v_heads[name] = [w |-> nvw, b |-> nvb]],
   dh |-> AddVec(dh, HeadGradient(B.heads[name].w, nw, d_out, Len(nb)))]

HeadDescend(B, dh, name, d_out, nvw, nvb) ==
  HeadInstall(B, dh, name, d_out, nvw, nvb,
              Descend(B.heads[name].w, nvw, cfg.hidden_size, Len(B.heads[name].b)),
              DescendVec(B.heads[name].b, nvb, Len(B.heads[name].b)))

\* Lines 236-246 for one head, given its output gradient.
HeadUpdate(B, dh, h, name, d_out, lr) ==
  HeadDescend(B, dh, name, d_out,
              VelocityMat(B.v_heads[name].w, h, d_out,
                          cfg.hidden_size, Len(B.heads[name].b), lr),
              VelocityVec(B.v_heads[name].b, d_out, Len(B.heads[name].b), lr))

\* One iteration of the loop over targets (lines 224-246).
HeadStep(B, dh, fr, t, lr) ==
  HeadUpdate(B, dh, fr.hidden, t[1], OutputGradient(fr.outputs[t[1]], t[2]), lr)

RECURSIVE BackHeads(_, _, _, _, _)
BackHeadsNext(r, fr, rest, lr) == BackHeads(r.B, r.dh, fr, rest, lr)

\* The loop over targets; an exception leaves the earlier heads updated.
BackHeads(B, dh, fr, tgt, lr) ==
  IF tgt = <<>> THEN [B |-> B, dh |-> dh, raised |-> FALSE]
  ELSE IF HeadRaises(fr, tgt[1]) THEN [B |-> B, dh |-> dh, raised |-> TRUE]
  ELSE BackHeadsNext(HeadStep(B, dh, fr, tgt[1], lr), fr, Tail(tgt), lr)

\* Lines 249-250: dh[j] *= relu_derivative(z1[j])
HiddenGradient(dh, z1) == Tab(Len(dh), LAMBDA j : Mul(dh[j], relu_derivative(z1[j])))

HiddenInstall(B, nvw1, nvb1) ==
  [B EXCEPT !.w1  = Descend(B.w1, nvw1, cfg.input_size, cfg.hidden_size),
            !.b1  = DescendVec(B.b1, nvb1, cfg.hidden_size),
            !.vw1 = nvw1,
            !.vb1 = nvb1]

\* Lines 252-261 given the hidden gradient.
HiddenUpdate(B, x, dh, lr) ==
  HiddenInstall(B, VelocityMat(B.vw1, x, dh, cfg.input_size, cfg.hidden_size, lr),
                   VelocityVec(B.vb1, dh, cfg.hidden_size, lr))

HiddenStep(B, x, fr, dh, lr) == HiddenUpdate(B, x, HiddenGradient(dh, fr.z1), lr)

BackwardFinish(hr, x, fr, lr) ==
  IF hr.raised THEN [B |-> hr.B, dh |-> hr.dh, raised |-> TRUE]
  ELSE [B |-> HiddenStep(hr.B, x, fr, hr.dh, lr), dh |-> hr.dh, raised |-> FALSE]

\* A backward pass that gives every configured head without a target the
\* target index 0 instead of skipping the head.
DefaultTargets(names, tgt) ==
  IF names = <<>> THEN tgt
  ELSE IF names[1] \in TargetNames(tgt) THEN tgt
  ELSE tgt \o << <<names[1], 0>> >>

backward_every_head(B, x, fr, tgt, lr) ==
  BackwardFinish(BackHeads(B, Zeros(cfg.hidden_size), fr,
                           DefaultTargets(Tail(cfg.head_order),
                                          DefaultTargets(cfg.head_order, tgt)), lr),
                 x, fr, lr)

\* backward(x, forward_result, targets) with self.learning_rate = lr.  dh is
\* the hidden gradient accumulated over the heads, before the ReLU derivative.
backward(B, x, fr, tgt, lr) ==
  BackwardFinish(BackHeads(B, Zeros(cfg.hidden_size), fr, tgt, lr), x, fr, lr)

\* forward(x) followed by backward(x, result, targets): lines 312-313, 403-404.
Pass(B, x, tgt, lr) == backward(B, x, forward(B, x), tgt, lr)

\* ------------------------------------------------------------------ inputs
TEmpty == <<>>
THi    == <<"Hi!">>
THiBye == <<"hi", "BYE">>
TLong  == <<"bye", "?!", "bye", "ok">>

Texts == {TEmpty, THi, THiBye, TLong}

\* Training records: 'text' plus whatever label keys the record carries.
DataGood    == << [text |-> THiBye, labels |-> [intent |-> "greet"]],
                  [text |-> TLong,  labels |-> [intent |-> "ask", sentiment |-> "neg"]] >>
DataOneTok  == << [text |-> THi, labels |-> [sentiment |-> "pos"]] >>
DataNoLabel == << [text |-> THiBye, labels |-> [intent |-> "bogus"]] >>
DataEmpty   == << >>
DataTone    == << [text |-> THiBye, labels |-> [tone |-> "up"]] >>

Corpora == {DataGood, DataOneTok, DataNoLabel, DataEmpty, DataTone}

MaxEpochs == 2

\* The largest epoch count a run of the training pipeline is given.
MaxRunEpochs == 1

\* Threads that call into one PandaBrain.
NumThreads == 2
Threads == 1..NumThreads

\* Arguments of a direct backward call.
Vectors == { <<ONE, 0>>, <<ONE \div 2, ONE \div 2>> }
TargetMaps == { <<>>, << <<"intent", 0>> >>, << <<"intent", 1>>, <<"sentiment", 0>> >> }

\* learn_one(text, intent, sentiment, preference); "" stands for None.
LearnLabels == { [intent |-> "greet", sentiment |-> "",    preference |-> ""],
                 [intent |-> "",      sentiment |-> "neg", preference |-> ""],
                 [intent |-> "bogus", sentiment |-> "",    preference |-> ""] }

\* The weights file: absent, not JSON, or a JSON object.
NoFile == [kind |-> "nofile"]
Json(data) == [kind |-> "json", data |-> data]

\* Files that this model did not write.
Foreign ==
  [garbage   |-> [kind |-> "garbage"],
   no_w1     |-> Json([b1 |-> <<0, 0>>]),
   no_b1     |-> Json([w1 |-> <<<<ONE, ONE>>, <<ONE, ONE>>>>]),
   head_no_b |-> Json([w1 |-> <<<<ONE, 0>>, <<0, ONE>>>>, b1 |-> <<ONE, ONE>>,
                       vocab |-> [hi |-> 0, bye |-> 1],
                       heads |-> [intent |-> [w |-> <<<<ONE, ONE>>, <<ONE, ONE>>>>]]]),
   \* a record with one of the standard heads and a head named "tone"
   one_head  |-> Json([w1 |-> <<<<ONE, 0>>, <<0, ONE>>>>, b1 |-> <<ONE, 0>>,
                       vocab |-> [hi |-> 0, ok |-> 1],
                       heads |-> [intent |-> [w |-> <<<<ONE, 0>>, <<0, 0>>>>, b |-> <<0, ONE>>],
                                  tone   |-> [w |-> <<<<0, 0>>, <<0, ONE>>>>, b |-> <<ONE, 0>>]]]),
   \* written by a model of input_size 3, hidden_size 1, intent head of size 3
   other_arch |-> Json([w1 |-> <<<<ONE>>, <<0>>, <<-ONE>>>>, b1 |-> <<0>>,
                        vocab |-> [hi |-> 0, bye |-> 1, ok |-> 2],
                        heads |-> [intent    |-> [w |-> <<<<ONE, 0, 0>>>>, b |-> <<0, 0, 0>>],
                                   sentiment |-> [w |-> <<<<0, ONE>>>>, b |-> <<0, 0>>]]])]

Sources == {"disk"} \cup DOMAIN Foreign

\* ------------------------------------------------------------ construction
HeadDraw(name) ==
  CASE name = "intent" -> 1 [] name = "sentiment" -> 2 [] name = "preference" -> 3 [] OTHER -> 4

\* _init_weights, the random draws fixed by seed.
InitHeads(c, seed) ==
  MapOf(c.head_order, LAMBDA name :
     [w |-> xavier_init(seed + HeadDraw(name), c.hidden_size, c.output_heads[name]),
      b |-> Zeros(c.output_heads[name])])

\* _init_momentum for the heads:
\* [[0.0] * len(head["w"][0]) for _ in range(len(head["w"]))], zeros(len(b))
MomentumOf(hd) ==
  [name \in DOMAIN hd |->
     [w |-> ZeroMat(Len(hd[name].w), Len(hd[name].w[1])),
      b |-> Zeros(Len(hd[name].b))]]

Snapshot == [B |-> Brain, vocab |-> vocab, learning_rate |-> learning_rate]

NoCall == [op |-> "init", ret |-> "-", raised |-> FALSE, passes |-> 0, lr |-> 0,
           tgt |-> <<>>, dh |-> <<>>, x |-> <<>>, arg |-> <<>>, src |-> "-", n |-> 0,
           fresh |-> FALSE, used |-> <<>>, out |-> <<>>, pre |-> <<>>]

\* A thread that has made no call: pc is the line its call stands at, the
\* other fields are the call's local variables and the rates its backward
\* passes read.
Idle == [pc |-> "idle", op |-> "-", old_lr |-> 0, x |-> <<>>, tgt |-> <<>>,
         fr |-> <<>>, queue |-> <<>>, rates |-> <<>>]

\* Install a parameter store value into the state variables.
SetBrain(B) ==
  /\ w1' = B.w1
  /\ b1' = B.b1
  /\ heads' = B.heads
  /\ vw1' = B.vw1
  /\ vb1' = B.vb1
  /\ v_heads' = B.v_heads

\* PandaBrain.__init__ with configuration c.
Fresh(c, seed) ==
  [w1 |-> xavier_init(seed, c.input_size, c.hidden_size),
   b1 |-> Zeros(c.hidden_size),
   heads |-> InitHeads(c, seed),
   vw1 |-> ZeroMat(c.input_size, c.hidden_size),
   vb1 |-> Zeros(c.hidden_size),
   v_heads |-> MomentumOf(InitHeads(c, seed))]

Init ==
  \E c \in Configs, seed \in 1..NumSeeds :
    /\ cfg = c
    /\ w1 = Fresh(c, seed).w1
    /\ b1 = Fresh(c, seed).b1
    /\ heads = Fresh(c, seed).heads
    /\ vw1 = Fresh(c, seed).vw1
    /\ vb1 = Fresh(c, seed).vb1
    /\ v_heads = Fresh(c, seed).v_heads
    /\ vocab = <<>>
    /\ learning_rate = c.learning_rate
    /\ everOK = FALSE
    /\ disk = NoFile
    /\ saved = <<>>
    /\ last = NoCall
    /\ steps = 0
    /\ threads = [t \in Threads |-> Idle]

\* A new process constructs a new PandaBrain; the weights file stays.
Construct(c, seed) ==
  /\ steps < MaxSteps
  /\ cfg' = c
  /\ SetBrain(Fresh(c, seed))
  /\ vocab' = <<>>
  /\ learning_rate' = c.learning_rate
  /\ everOK' = FALSE
  /\ last' = [NoCall EXCEPT !.op = "construct", !.pre = Snapshot]
  /\ steps' = steps + 1
  /\ UNCHANGED threads
  /\ UNCHANGED <<disk, saved>>

BackwardDone(r, x, tgt) ==
  /\ SetBrain(r.B)
  /\ last' = [NoCall EXCEPT !.op = "backward", !.raised = r.raised,
                            !.ret = IF r.raised THEN "raise" ELSE "none",
                            !.passes = 1, !.lr = learning_rate,
                            !.tgt = tgt, !.dh = r.dh, !.x = x, !.pre = Snapshot]

\* A direct call backward(x, forward(x), targets).
BackwardCall(x, tgt) ==
  /\ steps < MaxSteps
  /\ ~ForwardRaises(Brain, x)
  /\ BackwardDone(Pass(Brain, x, tgt, learning_rate), x, tgt)
  /\ steps' = steps + 1
  /\ UNCHANGED threads
  /\ UNCHANGED <<cfg, vocab, learning_rate, disk, everOK, saved>>

\* ---------------------------------------------------------------- training
\* label_maps of train and learn_one: the three head names are fixed in the
\* code, in this order, whatever output_heads configures.
LabelList(c, head_name) ==
  CASE head_name = "intent"     -> c.intent_labels
    [] head_name = "sentiment"  -> c.sentiment_labels
    [] head_name = "preference" -> c.preference_labels

InLabels(label, labels) == \E k \in 1..Len(labels) : labels[k] = label

\* {l: i for i, l in enumerate(labels)}[label]: the last position of label.
LabelIndex(label, labels) ==
  (CHOOSE k \in 1..Len(labels) :
     labels[k] = label /\ \A m \in (k + 1)..Len(labels) : labels[m] # label) - 1

\* s.get(head_name, "")
Get(rec, key) == IF key \in DOMAIN rec THEN rec[key] ELSE ""

\* A target that always names the first label of the list.
TargetOfFirst(c, head_name, label) ==
  IF InLabels(label, LabelList(c, head_name)) THEN << <<head_name, 0>> >> ELSE << >>

TargetOf(c, head_name, label) ==
  IF InLabels(label, LabelList(c, head_name))
  THEN << <<head_name, LabelIndex(label, LabelList(c, head_name))>> >>
  ELSE << >>

\* Lines 292-296: the targets of one training record.
TrainTargets(c, labels) ==
  TargetOf(c, "intent", Get(labels, "intent"))
    \o TargetOf(c, "sentiment", Get(labels, "sentiment"))
    \o TargetOf(c, "preference", Get(labels, "preference"))

\* The sample list without the 'if targets:' test of line 297.
RECURSIVE SamplesKeepAll(_, _, _)
SamplesKeepAll(c, data, voc) ==
  IF data = <<>> THEN <<>>
  ELSE <<[x |-> text_to_vector(data[1].text, voc), tgt |-> TrainTargets(c, data[1].labels)]>>
         \o SamplesKeepAll(c, Tail(data), voc)

\* Lines 289-298: vectorise, keep the records with at least one target.
RECURSIVE Samples(_, _, _)
Samples(c, data, voc) ==
  IF data = <<>> THEN <<>>
  ELSE IF TrainTargets(c, data[1].labels) # <<>>
  THEN <<[x |-> text_to_vector(data[1].text, voc), tgt |-> TrainTargets(c, data[1].labels)]>>
         \o Samples(c, Tail(data), voc)
  ELSE Samples(c, Tail(data), voc)

Perms(n) == {p \in [1..n -> 1..n] : \A a, b \in 1..n : p[a] = p[b] => a = b}

AddPasses(t, n) == [t EXCEPT !.passes = @ + n]

RECURSIVE TrainSamples(_, _, _)
SampleDone(r, rest, lr) ==
  IF r.raised THEN [B |-> r.B, raised |-> TRUE, passes |-> 1]
  ELSE AddPasses(TrainSamples(r.B, rest, lr), 1)

\* Lines 311-313 for the samples in the given order; an exception ends it.
TrainSamples(B, seq, lr) ==
  IF seq = <<>> THEN [B |-> B, raised |-> FALSE, passes |-> 0]
  ELSE IF ForwardRaises(B, seq[1].x) THEN [B |-> B, raised |-> TRUE, passes |-> 0]
  ELSE SampleDone(Pass(B, seq[1].x, seq[1].tgt, lr), Tail(seq), lr)

\* random.shuffle(samples): the list is permuted in place.
Shuffled(samples, perm) == Tab(Len(samples), LAMBDA k : samples[perm[k]])

RECURSIVE TrainEpochs(_, _, _, _)
EpochDone(e, samples, rest, lr) ==
  IF e.raised THEN e
  ELSE AddPasses(TrainEpochs(e.B, samples, rest, lr), e.passes)

Epoch(B, shuffled, rest, lr) ==
  EpochDone(TrainSamples(B, shuffled, lr), shuffled, rest, lr)

\* Lines 307-320: one epoch per shuffle, orders the permutations drawn.
TrainEpochs(B, samples, orders, lr) ==
  IF orders = <<>> THEN [B |-> B, raised |-> FALSE, passes |-> 0]
  ELSE Epoch(B, Shuffled(samples, orders[1]), Tail(orders), lr)

\* Lines 325-328: verbose prints history[-1], which raises when epochs = 0.
TrainDone(r, samples, data, epochs, verbose) ==
  /\ SetBrain(r.B)
  /\ everOK' = (everOK \/ ~(r.raised \/ (epochs = 0 /\ verbose)))
  /\ last' = [NoCall EXCEPT !.op = "train",
                !.raised = (r.raised \/ (epochs = 0 /\ verbose)),
                !.ret = IF r.raised \/ (epochs = 0 /\ verbose) THEN "raise" ELSE "history",
                !.passes = r.passes, !.n = epochs, !.arg = data,
                !.used = Tab(Len(samples), LAMBDA k : samples[k].tgt),
                !.lr = learning_rate, !.pre = Snapshot]

\* Lines 288-328 given the vocabulary and the valid samples.
TrainOn(voc, samples, data, epochs, verbose) ==
  /\ vocab' = voc
  /\ IF samples = <<>>
     THEN /\ UNCHANGED <<w1, b1, heads, vw1, vb1, v_heads, everOK>>
          /\ last' = [NoCall EXCEPT !.op = "train", !.ret = "none", !.arg = data,
                                    !.n = epochs, !.pre = Snapshot]
     ELSE \E orders \in [1..epochs -> Perms(Len(samples))] :
            TrainDone(TrainEpochs(Brain, samples, orders, learning_rate),
                      samples, data, epochs, verbose)

TrainWith(voc, data, epochs, verbose) ==
  TrainOn(voc, Samples(cfg, data, voc), data, epochs, verbose)

\* train(training_data, epochs, verbose).  verbose only prints while
\* epochs > 0, so it is drawn freely only for epochs = 0.
Train(data, epochs, verbose) ==
  /\ steps < MaxSteps
  /\ epochs > 0 => verbose
  /\ TrainWith(build_vocabulary(Tab(Len(data), LAMBDA k : data[k].text), cfg.input_size),
               data, epochs, verbose)
  /\ steps' = steps + 1
  /\ UNCHANGED threads
  /\ UNCHANGED <<cfg, learning_rate, disk, saved>>

\* -------------------------------------------------------------- prediction
\* label_lists.get(head_name, []) of predict (lines 346-353)
PredictLabels(c, head_name) ==
  CASE head_name = "intent"     -> c.intent_labels
    [] head_name = "sentiment"  -> c.sentiment_labels
    [] head_name = "preference" -> c.preference_labels
    [] OTHER                    -> <<>>

\* probs.index(max(probs)), 0-based: the first position of the maximum.
ArgMax(probs) ==
  (CHOOSE k \in 1..Len(probs) :
     probs[k] = MaxSeq(probs) /\ \A m \in 1..(k - 1) : probs[m] # MaxSeq(probs)) - 1

\* round(p, 4)
Round4(p) == RoundDiv(RoundDiv(p * 10 * ONE, ONE) * ONE, 10 * ONE)

\* labels[max_idx] and probs[i] for i in range(len(labels)) raise IndexError
\* when the label list and the head differ in size.
EntryRaises(labels, probs) == ArgMax(probs) >= Len(labels) \/ Len(labels) > Len(probs)

\* Lines 356-361: the entry of one head.
PredictionOf(labels, probs) ==
  [label      |-> labels[ArgMax(probs) + 1],
   confidence |-> Round4(probs[ArgMax(probs) + 1]),
   all_scores |-> [l \in {labels[i] : i \in 1..Len(labels)} |->
                     Round4(probs[LabelIndex(l, labels) + 1])]]

\* The heads the loop of line 352 does not skip.
Labelled(c, outputs) == {name \in DOMAIN outputs : PredictLabels(c, name) # <<>>}

PredictRaises(c, outputs) ==
  \E name \in Labelled(c, outputs) : EntryRaises(PredictLabels(c, name), outputs[name])

Predictions(c, outputs) ==
  [name \in Labelled(c, outputs) |-> PredictionOf(PredictLabels(c, name), outputs[name])]

\* Lines 345-367 on the result of forward.
PredictResult(text, vec, fr) ==
  IF PredictRaises(cfg, fr.outputs)
  THEN [NoCall EXCEPT !.op = "predict", !.ret = "raise", !.raised = TRUE, !.passes = 1,
                      !.arg = text, !.x = vec, !.pre = Snapshot]
  ELSE [NoCall EXCEPT !.op = "predict", !.ret = "ok", !.passes = 1,
                      !.arg = text, !.x = vec, !.out = Predictions(cfg, fr.outputs),
                      !.pre = Snapshot]

\* Lines 342-343 on the vector of the text.
PredictCall(text, vec) ==
  IF ForwardRaises(Brain, vec)
  THEN [NoCall EXCEPT !.op = "predict", !.ret = "raise", !.raised = TRUE,
                      !.arg = text, !.x = vec, !.pre = Snapshot]
  ELSE PredictResult(text, vec, forward(Brain, vec))

\* A predict whose forward pass builds z1 in self.b1 instead of a new list.
PredictAliasingBias(text) ==
  /\ steps < MaxSteps
  /\ vocab # <<>>
  /\ ~VectorRaises(text, vocab)
  /\ ~ForwardRaises(Brain, text_to_vector(text, vocab))
  /\ last' = PredictCall(text, text_to_vector(text, vocab))
  /\ b1' = HiddenPre(Brain, text_to_vector(text, vocab))
  /\ steps' = steps + 1
  /\ UNCHANGED threads
  /\ UNCHANGED <<cfg, w1, heads, vw1, vb1, v_heads, vocab, learning_rate,
                 disk, everOK, saved>>

\* predict(text): the error result on an empty vocabulary, else one forward
\* pass.  Nothing but the call record changes.
Predict(text) ==
  /\ steps < MaxSteps
  /\ last' = IF vocab = <<>>
             THEN [NoCall EXCEPT !.op = "predict", !.ret = "error", !.arg = text,
                                 !.pre = Snapshot]
             ELSE IF VectorRaises(text, vocab)
             THEN [NoCall EXCEPT !.op = "predict", !.ret = "raise", !.raised = TRUE,
                                 !.arg = text, !.pre = Snapshot]
             ELSE PredictCall(text, text_to_vector(text, vocab))
  /\ steps' = steps + 1
  /\ UNCHANGED threads
  /\ UNCHANGED <<cfg, w1, b1, heads, vw1, vb1, v_heads, vocab, learning_rate,
                 disk, everOK, saved>>

\* ---------------------------------------------------------- online learning
\* Lines 389-394: 'if intent and intent in label_maps["intent"]', and so on.
LearnTargets(c, labels) ==
  TargetOf(c, "intent", labels.intent)
    \o TargetOf(c, "sentiment", labels.sentiment)
    \o TargetOf(c, "preference", labels.preference)

\* Line 401: self.learning_rate = old_lr * 0.1
ScaledRate(old_lr) == Mul(old_lr, ONE \div 10)

\* Line 406 is reached only when neither forward nor backward raised.
RateAfterLearn(old_lr, raised) == IF raised THEN ScaledRate(old_lr) ELSE old_lr

LearnReturn(ret, call) ==
  /\ last' = [NoCall EXCEPT !.op = "learn_one", !.ret = ret, !.raised = (ret = "raise"),
                            !.arg = call, !.pre = Snapshot]
  /\ UNCHANGED <<w1, b1, heads, vw1, vb1, v_heads, learning_rate>>

LearnDone(r, vec, tgt, call) ==
  /\ SetBrain(r.B)
  /\ learning_rate' = RateAfterLearn(learning_rate, r.raised)
  /\ last' = [NoCall EXCEPT !.op = "learn_one", !.raised = r.raised,
                            !.ret = IF r.raised THEN "raise" ELSE "true",
                            !.passes = 1, !.lr = ScaledRate(learning_rate),
                            !.tgt = tgt, !.dh = r.dh, !.x = vec, !.arg = call,
                            !.pre = Snapshot]

\* Lines 399-407 on the vector and the targets.
LearnStep(vec, tgt, call) ==
  IF ForwardRaises(Brain, vec)
  THEN /\ learning_rate' = RateAfterLearn(learning_rate, TRUE)
       /\ last' = [NoCall EXCEPT !.op = "learn_one", !.raised = TRUE, !.ret = "raise",
                                 !.lr = ScaledRate(learning_rate), !.tgt = tgt,
                                 !.x = vec, !.arg = call, !.pre = Snapshot]
       /\ UNCHANGED <<w1, b1, heads, vw1, vb1, v_heads>>
  ELSE LearnDone(Pass(Brain, vec, tgt, ScaledRate(learning_rate)), vec, tgt, call)

\* learn_one(text, intent, sentiment, preference)
LearnOne(text, labels) ==
  /\ steps < MaxSteps
  /\ IF vocab = <<>> THEN LearnReturn("false", <<text, labels>>)
     ELSE IF VectorRaises(text, vocab) THEN LearnReturn("raise", <<text, labels>>)
     ELSE IF LearnTargets(cfg, labels) = <<>> THEN LearnReturn("false", <<text, labels>>)
     ELSE LearnStep(text_to_vector(text, vocab), LearnTargets(cfg, labels),
                    <<text, labels>>)
  /\ steps' = steps + 1
  /\ UNCHANGED threads
  /\ UNCHANGED <<cfg, vocab, disk, everOK, saved>>

\* -------------------------------------------------------------- persistence
\* A record that holds only the first head.
RecordFirstHead(version, B, voc) ==
  [version |-> version,
   w1      |-> B.w1,
   b1      |-> B.b1,
   heads   |-> [name \in {cfg.head_order[1]} |->
                  [w |-> B.heads[name].w, b |-> B.heads[name].b]],
   vocab   |-> voc]

\* The record save serialises (lines 418-426); the momentum buffers are not
\* part of it.  json.dumps / json.loads keep keys, nesting and numbers.
Record(version, B, voc) ==
  [version |-> version,
   w1      |-> B.w1,
   b1      |-> B.b1,
   heads   |-> [name \in DOMAIN B.heads |-> [w |-> B.heads[name].w, b |-> B.heads[name].b]],
   vocab   |-> voc]

Version == 2

Save ==
  /\ steps < MaxSteps
  /\ disk' = Json(Record(Version, Brain, vocab))
  /\ saved' = [cfg |-> cfg, w1 |-> w1, b1 |-> b1, heads |-> heads, vocab |-> vocab]
  /\ last' = [NoCall EXCEPT !.op = "save", !.ret = "none", !.pre = Snapshot]
  /\ steps' = steps + 1
  /\ UNCHANGED threads
  /\ UNCHANGED <<cfg, w1, b1, heads, vw1, vb1, v_heads, vocab, learning_rate, everOK>>

\* A loop over the heads of the record instead of the heads of the model.
LoadHeadsOfRecord(hd, rec, names) ==
  IF \E name \in DOMAIN rec : {"w", "b"} \ DOMAIN rec[name] # {}
  THEN [heads |-> hd, raised |-> TRUE]
  ELSE [heads |-> [name \in DOMAIN rec \cup DOMAIN hd |->
                     IF name \in DOMAIN rec
                     THEN [w |-> rec[name].w, b |-> rec[name].b]
                     ELSE hd[name]],
        raised |-> FALSE]

\* Lines 453-456: every configured head found in the record is overwritten,
\* "w" first; a missing key raises KeyError and ends the loop.
RECURSIVE LoadHeads(_, _, _)
LoadHeads(hd, rec, names) ==
  IF names = <<>> THEN [heads |-> hd, raised |-> FALSE]
  ELSE IF names[1] \notin DOMAIN rec THEN LoadHeads(hd, rec, Tail(names))
  ELSE IF "w" \notin DOMAIN rec[names[1]] THEN [heads |-> hd, raised |-> TRUE]
  ELSE IF "b" \notin DOMAIN rec[names[1]]
  THEN [heads |-> [hd EXCEPT ![names[1]].w = rec[names[1]].w], raised |-> TRUE]
  ELSE LoadHeads([hd EXCEPT ![names[1]] = [w |-> rec[names[1]].w, b |-> rec[names[1]].b]],
                 rec, Tail(names))

\* data.get(key, {})
GetOr(data, key) == IF key \in DOMAIN data THEN data[key] ELSE <<>>

\* A load that ends without the call of _init_momentum.
LoadFinishKeepMomentum(c, B, voc, r) ==
  [B |-> [B EXCEPT !.heads = r.heads], vocab |-> voc,
   ret |-> IF r.raised THEN "raise" ELSE "true"]

\* Lines 453-459 once the heads are read: _init_momentum and 'return True',
\* unless a head raised.
LoadFinish(c, B, voc, r) ==
  IF r.raised
  THEN [B |-> [B EXCEPT !.heads = r.heads], vocab |-> voc, ret |-> "raise"]
  ELSE [B |-> [B EXCEPT !.heads = r.heads,
                        !.vw1 = ZeroMat(c.input_size, c.hidden_size),
                        !.vb1 = Zeros(c.hidden_size),
                        !.v_heads = MomentumOf(r.heads)],
        vocab |-> voc, ret |-> "true"]

\* Lines 449-459 on the parsed record: each assignment takes effect before
\* the next key is looked up.
LoadData(c, B, voc, data) ==
  IF "w1" \notin DOMAIN data THEN [B |-> B, vocab |-> voc, ret |-> "raise"]
  ELSE IF "b1" \notin DOMAIN data
  THEN [B |-> [B EXCEPT !.w1 = data.w1], vocab |-> voc, ret |-> "raise"]
  ELSE LoadFinish(c, [B EXCEPT !.w1 = data.w1, !.b1 = data.b1], GetOr(data, "vocab"),
                  LoadHeads(B.heads, GetOr(data, "heads"), c.head_order))

\* load(path) of a model with configuration c, parameters B and vocabulary
\* voc: False for a missing file, an exception from json.loads for a file
\* that is not JSON.
load(c, B, voc, doc) ==
  CASE doc.kind = "nofile"  -> [B |-> B, vocab |-> voc, ret |-> "false"]
    [] doc.kind = "garbage" -> [B |-> B, vocab |-> voc, ret |-> "raise"]
    [] doc.kind = "json"    -> LoadData(c, B, voc, doc.data)

File(src) == IF src = "disk" THEN disk ELSE Foreign[src]

LoadDone(r, src, pre, fresh) ==
  /\ SetBrain(r.B)
  /\ vocab' = r.vocab
  /\ last' = [NoCall EXCEPT !.op = "load", !.ret = r.ret, !.raised = (r.ret = "raise"),
                            !.src = src, !.fresh = fresh, !.pre = pre]

\* load(path): the weights file this model saves, or another file.
Load(src) ==
  /\ steps < MaxSteps
  /\ LoadDone(load(cfg, Brain, vocab, File(src)), src, Snapshot,
              last.op \in {"init", "construct"})
  /\ everOK' = (everOK \/ load(cfg, Brain, vocab, File(src)).ret = "true")
  /\ steps' = steps + 1
  /\ UNCHANGED threads
  /\ UNCHANGED <<cfg, learning_rate, disk, saved>>

\* The start of predict.py (lines 49-54): a new process constructs a
\* PandaBrain and, the weights file existing, loads it.
Startup(c, seed) ==
  /\ steps < MaxSteps
  /\ disk.kind # "nofile"
  /\ cfg' = c
  /\ learning_rate' = c.learning_rate
  /\ LoadDone(load(c, Fresh(c, seed), <<>>, disk), "disk",
              [B |-> Fresh(c, seed), vocab |-> <<>>, learning_rate |-> c.learning_rate],
              TRUE)
  /\ everOK' = (load(c, Fresh(c, seed), <<>>, disk).ret = "true")
  /\ steps' = steps + 1
  /\ UNCHANGED threads
  /\ UNCHANGED <<disk, saved>>

\* ------------------------------------------------------ training pipeline
\* The end of the run of train.py: brain.save() (line 110) follows every
\* train call that returned, whatever it returned; an exception ends the
\* process before it.  The predict calls of the quick test (lines 116-131)
\* only read.
PipelineEnd(B, voc, ret, ok, data, retrain, pre) ==
  /\ SetBrain(B)
  /\ vocab' = voc
  /\ everOK' = ok
  /\ disk' = IF ret = "raise" THEN disk ELSE Json(Record(Version, B, voc))
  /\ saved' = IF ret = "raise" THEN saved
              ELSE [cfg |-> cfg, w1 |-> B.w1, b1 |-> B.b1, heads |-> B.heads, vocab |-> voc]
  /\ last' = [NoCall EXCEPT !.op = "pipeline", !.ret = ret, !.raised = (ret = "raise"),
                            !.arg = data, !.fresh = retrain, !.pre = pre]

PipelineTrained(r, voc, loaded, data, retrain, pre) ==
  PipelineEnd(r.B, voc, IF r.raised THEN "raise" ELSE "history",
              loaded \/ ~r.raised, data, retrain, pre)

\* brain.train(samples, epochs=epochs, verbose=verbose) of line 107.
PipelineTrain(ld, voc, samples, data, retrain, epochs, pre) ==
  IF samples = <<>>
  THEN PipelineEnd(ld.B, voc, "none", ld.ret = "true", data, retrain, pre)
  ELSE \E orders \in [1..epochs -> Perms(Len(samples))] :
         PipelineTrained(TrainEpochs(ld.B, samples, orders, cfg.learning_rate),
                         voc, ld.ret = "true", data, retrain, pre)

PipelineVocab(ld, voc, data, retrain, epochs, pre) ==
  PipelineTrain(ld, voc, Samples(cfg, data, voc), data, retrain, epochs, pre)

\* Lines 94-107, ld the outcome of the load of line 95.
PipelineLoaded(ld, data, retrain, epochs, pre) ==
  IF ld.ret = "raise"
  THEN PipelineEnd(ld.B, ld.vocab, "raise", FALSE, data, retrain, pre)
  ELSE PipelineVocab(ld, build_vocabulary(Tab(Len(data), LAMBDA k : data[k].text),
                                          cfg.input_size),
                     data, retrain, epochs, pre)

\* main of train.py (lines 72-111) in a new process of the same program:
\* exit on an empty sample list, PandaBrain(), load unless --retrain or no
\* weights file, train with epochs >= 1 (args.epochs or brain.epochs), save.
TrainPipeline(seed, data, retrain, epochs) ==
  /\ steps < MaxSteps
  /\ data # <<>>
  /\ learning_rate' = cfg.learning_rate
  /\ PipelineLoaded(IF ~retrain /\ disk.kind # "nofile"
                    THEN load(cfg, Fresh(cfg, seed), <<>>, disk)
                    ELSE [B |-> Fresh(cfg, seed), vocab |-> <<>>, ret |-> "skipped"],
                    data, retrain, epochs,
                    [B |-> Fresh(cfg, seed), vocab |-> <<>>,
                     learning_rate |-> cfg.learning_rate, disk |-> disk])
  /\ steps' = steps + 1
  /\ UNCHANGED threads
  /\ UNCHANGED cfg

Next ==
  \/ \E c \in Configs, seed \in 1..NumSeeds : Construct(c, seed)
  \/ \E x \in Vectors, tgt \in TargetMaps : BackwardCall(x, tgt)
  \/ \E data \in Corpora, epochs \in 0..MaxEpochs, verbose \in BOOLEAN :
       Train(data, epochs, verbose)
  \/ \E text \in Texts : Predict(text)
  \/ \E text \in Texts, labels \in LearnLabels : LearnOne(text, labels)
  \/ Save
  \/ \E src \in Sources : Load(src)
  \/ \E c \in Configs, seed \in 1..NumSeeds : Startup(c, seed)
  \/ \E seed \in 1..NumSeeds, data \in Corpora, retrain \in BOOLEAN, epochs \in 1..MaxRunEpochs :
       TrainPipeline(seed, data, retrain, epochs)

Spec == Init /\ [][Next]_vars

\* ---------------------------------------------------- calls from threads
\* Calls of several threads on one PandaBrain, one statement of learn_one
\* and of train's loop at a time.  A forward and a backward call each run as
\* one step; every interleaving below is one the statements allow.
Running(t) == threads[t].pc \notin {"idle", "returned", "raised"}

NoneRunning == \A t \in Threads : ~Running(t)

\* learn_one up to line 398: the guards, the vector and the targets.
LearnStart(t, text, labels) ==
  /\ threads[t].pc = "idle"
  /\ threads' = [threads EXCEPT ![t] =
       IF vocab = <<>> THEN [@ EXCEPT !.pc = "returned", !.op = "learn_one"]
       ELSE IF VectorRaises(text, vocab) THEN [@ EXCEPT !.pc = "raised", !.op = "learn_one"]
       ELSE IF LearnTargets(cfg, labels) = <<>>
       THEN [@ EXCEPT !.pc = "returned", !.op = "learn_one"]
       ELSE [@ EXCEPT !.pc = "400", !.op = "learn_one",
                      !.x = text_to_vector(text, vocab),
                      !.tgt = LearnTargets(cfg, labels)]]
  /\ UNCHANGED <<cfg, w1, b1, heads, vw1, vb1, v_heads, vocab, learning_rate, disk,
                 last, everOK, saved, steps>>

\* Line 400: old_lr = self.learning_rate
LearnSaveRate(t) ==
  /\ threads[t].pc = "400"
  /\ threads' = [threads EXCEPT ![t] = [@ EXCEPT !.pc = "401", !.old_lr = learning_rate]]
  /\ UNCHANGED <<cfg, w1, b1, heads, vw1, vb1, v_heads, vocab, learning_rate, disk,
                 last, everOK, saved, steps>>

\* Line 401: self.learning_rate = old_lr * 0.1
LearnScale(t) ==
  /\ threads[t].pc = "401"
  /\ learning_rate' = ScaledRate(threads[t].old_lr)
  /\ threads' = [threads EXCEPT ![t] = [@ EXCEPT !.pc = "403"]]
  /\ UNCHANGED <<cfg, w1, b1, heads, vw1, vb1, v_heads, vocab, disk,
                 last, everOK, saved, steps>>

\* The sample the thread's next forward call is given.
NextSample(t) ==
  IF threads[t].op = "train" THEN threads[t].queue[1]
  ELSE [x |-> threads[t].x, tgt |-> threads[t].tgt]

\* result = self.forward(x): line 403 of learn_one, line 312 of train.
ForwardStep(t) ==
  /\ threads[t].pc \in {"403", "312"}
  /\ threads' = [threads EXCEPT ![t] =
       IF ForwardRaises(Brain, NextSample(t).x) THEN [@ EXCEPT !.pc = "raised"]
       ELSE [@ EXCEPT !.pc = IF @ = "403" THEN "404" ELSE "313",
                      !.x = NextSample(t).x, !.tgt = NextSample(t).tgt,
                      !.fr = forward(Brain, NextSample(t).x)]]
  /\ UNCHANGED <<cfg, w1, b1, heads, vw1, vb1, v_heads, vocab, learning_rate, disk,
                 last, everOK, saved, steps>>

\* Where a call stands after a backward pass that did not raise.
AfterBackward(th) ==
  IF th.op = "learn_one" THEN [th EXCEPT !.pc = "406"]
  ELSE [th EXCEPT !.pc = IF Len(th.queue) > 1 THEN "312" ELSE "returned",
                  !.queue = Tail(th.queue)]

BackwardStepDone(t, r) ==
  /\ SetBrain(r.B)
  /\ threads' = [threads EXCEPT ![t] =
       IF r.raised THEN [@ EXCEPT !.pc = "raised", !.rates = Append(@, learning_rate)]
       ELSE AfterBackward([@ EXCEPT !.rates = Append(@, learning_rate)])]

\* self.backward(x, result, targets): line 404 of learn_one, line 313 of
\* train.  backward reads self.learning_rate when it starts (line 219).
BackwardStep(t) ==
  /\ threads[t].pc \in {"404", "313"}
  /\ BackwardStepDone(t, backward(Brain, threads[t].x, threads[t].fr, threads[t].tgt,
                                  learning_rate))
  /\ UNCHANGED <<cfg, vocab, learning_rate, disk, last, everOK, saved, steps>>

\* Lines 406-407: self.learning_rate = old_lr; return True
LearnRestore(t) ==
  /\ threads[t].pc = "406"
  /\ learning_rate' = threads[t].old_lr
  /\ threads' = [threads EXCEPT ![t] = [@ EXCEPT !.pc = "returned"]]
  /\ UNCHANGED <<cfg, w1, b1, heads, vw1, vb1, v_heads, vocab, disk,
                 last, everOK, saved, steps>>

\* The samples of train in the order the shuffles of its epochs give them.
TrainQueue(t, samples, epochs) ==
  IF samples = <<>>
  THEN threads' = [threads EXCEPT ![t] = [@ EXCEPT !.pc = "returned", !.op = "train"]]
  ELSE \E orders \in [1..epochs -> Perms(Len(samples))] :
         threads' = [threads EXCEPT ![t] =
           [@ EXCEPT !.pc = "312", !.op = "train",
                     !.queue = Concat(Tab(epochs, LAMBDA e : Shuffled(samples, orders[e])))]]

TrainStartWith(t, voc, data, epochs) ==
  /\ vocab' = voc
  /\ TrainQueue(t, Samples(cfg, data, voc), epochs)

\* train up to the first forward call: lines 274-310.
TrainStart(t, data, epochs) ==
  /\ threads[t].pc = "idle"
  /\ TrainStartWith(t, build_vocabulary(Tab(Len(data), LAMBDA k : data[k].text),
                                        cfg.input_size), data, epochs)
  /\ UNCHANGED <<cfg, w1, b1, heads, vw1, vb1, v_heads, learning_rate, disk,
                 last, everOK, saved, steps>>

\* The model is trained by one call before any thread calls into it.
TrainFirst(data, epochs) ==
  /\ steps = 0
  /\ Train(data, epochs, epochs > 0)

RaceTexts == {THi, TLong}
RaceCorpora == {DataGood, DataOneTok}

ThreadStep(t) ==
  \/ LearnSaveRate(t)
  \/ LearnScale(t)
  \/ ForwardStep(t)
  \/ BackwardStep(t)
  \/ LearnRestore(t)

\* The calls overlap freely: no lock.
NextRace ==
  \/ \E data \in RaceCorpora, epochs \in 0..MaxRunEpochs : TrainFirst(data, epochs)
  \/ \E t \in Threads, text \in RaceTexts, labels \in LearnLabels :
       steps > 0 /\ LearnStart(t, text, labels)
  \/ \E t \in Threads, data \in RaceCorpora, epochs \in 1..MaxRunEpochs :
       steps > 0 /\ TrainStart(t, data, epochs)
  \/ \E t \in Threads : ThreadStep(t)

SpecRace == Init /\ [][NextRace]_vars

\* Every call is made holding one exclusive lock: a call starts only while
\* no other call is running.
NextLocked ==
  \/ \E data \in RaceCorpora, epochs \in 0..MaxRunEpochs : TrainFirst(data, epochs)
  \/ \E t \in Threads, text \in RaceTexts, labels \in LearnLabels :
       steps > 0 /\ NoneRunning /\ LearnStart(t, text, labels)
  \/ \E t \in Threads, data \in RaceCorpora, epochs \in 1..MaxRunEpochs :
       steps > 0 /\ NoneRunning /\ TrainStart(t, data, epochs)
  \/ \E t \in Threads : ThreadStep(t)

SpecLocked == Init /\ [][NextLocked]_vars

\* ------------------------------------------------------------------ claims
Configured == DOMAIN cfg.output_heads

\* The hidden gradient that the heads named in tgt contribute when head
\* weights hd are multiplied into it: sum_k hd[name].w[j][k] * d_logits[k].
RECURSIVE GradientOver(_, _, _)
GradientOver(hd, fr, tgt) ==
  IF tgt = <<>> THEN Zeros(cfg.hidden_size)
  ELSE AddVec(Tab(cfg.hidden_size, LAMBDA j :
                SumSeq(Tab(Len(fr.outputs[tgt[1][1]]), LAMBDA k :
                  Mul(hd[tgt[1][1]].w[j][k],
                      OutputGradient(fr.outputs[tgt[1][1]], tgt[1][2])[k])))),
              GradientOver(hd, fr, Tail(tgt)))

OnePass == last.op \in {"backward", "learn_one"} /\ last.passes = 1 /\ ~last.raised

\* C1: a backward call with an empty targets mapping leaves w1, b1, every
\* head's weights and biases and every momentum buffer equal to their values
\* before the call.
C1_EmptyTargetsChangeNothing ==
  (last.op = "backward" /\ last.tgt = <<>>) => Brain = last.pre.B

\* C2: the hidden gradient dh that backward accumulates is, for every hidden
\* unit, the sum over the targeted heads of W_head[j][k] * d_logits[k] taken
\* with the weights the heads had before the call.
C2_GradientReadsOldWeights ==
  OnePass => last.dh = GradientOver(last.pre.B.heads, forward(last.pre.B, last.x), last.tgt)

\* C3: a backward or learn_one call leaves the weights, bias and momentum
\* buffers of every head without a target as they were, and the hidden
\* gradient holds the contributions of the targeted heads alone.
C3_UntargetedHeadsUntouched ==
  (last.op \in {"backward", "learn_one"}) =>
    /\ \A name \in Configured \ TargetNames(last.tgt) :
         /\ heads[name] = last.pre.B.heads[name]
         /\ v_heads[name] = last.pre.B.v_heads[name]
    /\ OnePass => last.dh = GradientOver(heads, forward(last.pre.B, last.x), last.tgt)

C3_Witness ==
  /\ last.op = "learn_one"
  /\ last.ret = "true"
  /\ TargetNames(last.tgt) = {"sentiment"}
  /\ heads["sentiment"] # last.pre.B.heads["sentiment"]
  /\ last.pre.B.v_heads["intent"].w # ZeroMat(cfg.hidden_size, cfg.output_heads["intent"])
  /\ last.dh # Zeros(cfg.hidden_size)

\* C4: after any sequence of calls, whatever their outcome, learning_rate
\* is the configured rate.
C4_LearningRateRestored == learning_rate = cfg.learning_rate

\* A file that is not a complete record: not JSON, or lacking w1, b1 or a
\* head's w or b.
Malformed(doc) ==
  \/ doc.kind = "garbage"
  \/ /\ doc.kind = "json"
     /\ \/ "w1" \notin DOMAIN doc.data
        \/ "b1" \notin DOMAIN doc.data
        \/ \E name \in DOMAIN GetOr(doc.data, "heads") :
             \/ "w" \notin DOMAIN doc.data.heads[name]
             \/ "b" \notin DOMAIN doc.data.heads[name]

\* C5: load of a missing or malformed file reports the failure by its return
\* value and leaves parameters, vocabulary and momentum buffers as they were.
C5_FailedLoadChangesNothing ==
  (last.op = "load" /\ (File(last.src).kind = "nofile" \/ Malformed(File(last.src)))) =>
    /\ last.ret = "false"
    /\ Brain = last.pre.B
    /\ vocab = last.pre.vocab

IsMatrix(m, rows, cols) == Len(m) = rows /\ \A i \in 1..rows : Len(m[i]) = cols

\* C6: in every reachable state w1, b1 and every configured head have the
\* shapes the configuration gives them.
C6_ShapesMatchConfiguration ==
  /\ IsMatrix(w1, cfg.input_size, cfg.hidden_size)
  /\ Len(b1) = cfg.hidden_size
  /\ \A name \in Configured :
       /\ IsMatrix(heads[name].w, cfg.hidden_size, cfg.output_heads[name])
       /\ Len(heads[name].b) = cfg.output_heads[name]

\* C7: in every reachable state the vocabulary has at most input_size entries.
C7_VocabularyFitsInput == VocabLen(vocab) <= cfg.input_size

\* No record of the corpus carries a label of any of the label lists.
NoValidSample(c, data) ==
  \A k \in 1..Len(data) : \A h \in {"intent", "sentiment", "preference"} :
    ~InLabels(Get(data[k].labels, h), LabelList(c, h))

\* C8: a train call without any valid sample returns no loss history and
\* leaves weights, biases, momentum buffers and learning rate as they were;
\* the vocabulary is the one built from the call's texts.
C8_TrainWithoutSamplesFails ==
  (last.op = "train" /\ NoValidSample(cfg, last.arg)) =>
    /\ last.ret = "none"
    /\ last.passes = 0
    /\ Brain = last.pre.B
    /\ learning_rate = last.pre.learning_rate
    /\ vocab = build_vocabulary(Tab(Len(last.arg), LAMBDA k : last.arg[k].text),
                                cfg.input_size)

C8_Witness ==
  /\ last.op = "train"
  /\ last.ret = "none"
  /\ last.arg # <<>>
  /\ vocab # last.pre.vocab
  /\ last.pre.B.vb1 # Zeros(cfg.hidden_size)

\* C9: while no train has returned a loss history and no load has returned
\* True, predict returns the 'model not trained' error, learn_one returns
\* False, and neither runs a forward pass.
C9_UntrainedModelRefuses ==
  ~everOK =>
    /\ last.op = "predict" => (last.ret = "error" /\ last.passes = 0)
    /\ last.op = "learn_one" => (last.ret = "false" /\ last.passes = 0)

\* C10: load of the saved record into a freshly constructed model of the
\* saving model's configuration returns True and yields the saving model's
\* w1, b1, head weights and biases, and vocabulary.
C10_SaveLoadRoundTrip ==
  (last.op = "load" /\ last.src = "disk" /\ last.fresh /\ disk.kind = "json"
     /\ saved.cfg = cfg) =>
    /\ last.ret = "true"
    /\ w1 = saved.w1
    /\ b1 = saved.b1
    /\ heads = saved.heads
    /\ vocab = saved.vocab

C10_Witness ==
  /\ last.op = "load"
  /\ last.src = "disk"
  /\ last.fresh
  /\ last.ret = "true"
  /\ saved.w1 # last.pre.B.w1
  /\ saved.heads # last.pre.B.heads
  /\ VocabLen(saved.vocab) > 0
  /\ vocab = saved.vocab

ZeroVec(v) == \A j \in 1..Len(v) : v[j] = 0
ZeroMatrix(m) == \A i \in 1..Len(m) : ZeroVec(m[i])

MomentumZero(B) ==
  /\ ZeroMatrix(B.vw1)
  /\ ZeroVec(B.vb1)
  /\ \A name \in DOMAIN B.v_heads :
       ZeroMatrix(B.v_heads[name].w) /\ ZeroVec(B.v_heads[name].b)

Momentum(B) == [vw1 |-> B.vw1, vb1 |-> B.vb1, v_heads |-> B.v_heads]

\* C11: the saved record holds no momentum buffer; after every load that
\* returns True every momentum buffer is zero; a call that makes no backward
\* pass leaves the buffers as they were, and a backward pass starts from the
\* velocity the previous call left.
C11_MomentumZeroAfterLoad ==
  /\ disk.kind = "json" =>
       /\ DOMAIN disk.data = {"version", "w1", "b1", "heads", "vocab"}
       /\ \A name \in DOMAIN disk.data.heads : DOMAIN disk.data.heads[name] = {"w", "b"}
  /\ (last.op = "load" /\ last.ret = "true") => MomentumZero(Brain)
  /\ (last.op \in {"predict", "save"}
        \/ (last.op \in {"train", "learn_one"} /\ last.passes = 0)) =>
       Momentum(Brain) = Momentum(last.pre.B)
  /\ OnePass =>
       vb1 = VelocityVec(last.pre.B.vb1,
                         HiddenGradient(last.dh, forward(last.pre.B, last.x).z1),
                         cfg.hidden_size, last.lr)

C11_Witness ==
  /\ last.op = "load"
  /\ last.ret = "true"
  /\ ~ZeroVec(last.pre.B.vb1)
  /\ ~ZeroMatrix(last.pre.B.vw1)
  /\ \E name \in DOMAIN last.pre.B.v_heads : ~ZeroVec(last.pre.B.v_heads[name].b)
  /\ MomentumZero(Brain)

RecordHeads(src) == GetOr(File(src).data, "heads")

\* C12: a load that returns True overwrites the weights and bias of the
\* configured heads that the record holds, leaves every other configured
\* head as it was before the load, and adds no head.
C12_LoadOverwritesRecordedHeads ==
  (last.op = "load" /\ last.ret = "true") =>
    /\ DOMAIN heads = Configured
    /\ \A name \in Configured :
         IF name \in DOMAIN RecordHeads(last.src)
         THEN heads[name] = [w |-> RecordHeads(last.src)[name].w,
                             b |-> RecordHeads(last.src)[name].b]
         ELSE heads[name] = last.pre.B.heads[name]

C12_Witness ==
  /\ last.op = "load"
  /\ last.ret = "true"
  /\ \E name \in Configured \cap DOMAIN RecordHeads(last.src) :
       heads[name] # last.pre.B.heads[name]
  /\ \E name \in Configured \ DOMAIN RecordHeads(last.src) :
       heads[name] = last.pre.B.heads[name]
  /\ DOMAIN RecordHeads(last.src) \ Configured # {}

SameShape(v, w) == Len(v) = Len(w) /\ \A i \in 1..Len(w) : Len(v[i]) = Len(w[i])

\* C13: in every reachable state each momentum buffer has the shape of its
\* parameter: vw1 as w1, vb1 as b1, each head's velocities as its w and b.
C13_MomentumShapesMirrorParameters ==
  /\ SameShape(vw1, w1)
  /\ Len(vb1) = Len(b1)
  /\ \A name \in DOMAIN heads :
       /\ name \in DOMAIN v_heads
       /\ SameShape(v_heads[name].w, heads[name].w)
       /\ Len(v_heads[name].b) = Len(heads[name].b)

\* The label list the configuration gives to a head.
HeadLabels(c, name) ==
  CASE name = "intent"     -> c.intent_labels
    [] name = "sentiment"  -> c.sentiment_labels
    [] name = "preference" -> c.preference_labels
    [] name = "tone"       -> c.tone_labels

CallTexts == Tab(Len(last.arg), LAMBDA k : last.arg[k].text)

\* C14: for every configured head H and every training record whose label
\* for H is in H's label list, train builds a target for H, so the corpus
\* has a valid sample.
C14_ConfiguredHeadsReceiveTargets ==
  last.op = "train" =>
    \A k \in 1..Len(last.arg) : \A H \in Configured :
      InLabels(Get(last.arg[k].labels, H), HeadLabels(cfg, H)) =>
        /\ last.ret # "none"
        /\ \E m \in 1..Len(last.used) : H \in TargetNames(last.used[m])

\* C15: a label for a head that is not configured creates no target, in a
\* training record and in learn_one alike, and raises no error.
C15_UnconfiguredHeadLabelsIgnored ==
  /\ last.op = "train" =>
       \A m \in 1..Len(last.used) : TargetNames(last.used[m]) \subseteq Configured
  /\ last.op = "learn_one" => TargetNames(last.tgt) \subseteq Configured

LabelHeads == {"intent", "sentiment", "preference"}

\* The (head, index) pairs with the record's label for the head at that
\* position of the head's label list.
ExpectedTargets(c, labels) ==
  UNION { { <<h, i - 1>> : i \in {i \in 1..Len(LabelList(c, h)) :
                                    LabelList(c, h)[i] = Get(labels, h)} } : h \in LabelHeads }

ValidRecords(c, data) == {k \in 1..Len(data) : ExpectedTargets(c, data[k].labels) # {}}

\* The position in data of the m-th valid record.
NthValid(c, data, m) ==
  CHOOSE k \in ValidRecords(c, data) :
    Cardinality({j \in ValidRecords(c, data) : j <= k}) = m

C17_VectorsHaveInputSize ==
  /\ (last.op \in {"predict", "learn_one"} /\ last.x # <<>>) =>
       Len(last.x) = cfg.input_size
  /\ (last.op = "train" /\ last.used # <<>>) =>
       \A k \in ValidRecords(cfg, last.arg) :
         Len(text_to_vector(last.arg[k].text, vocab)) = cfg.input_size

\* C18: the vocabulary is the one installed by the most recent train call
\* (built from that call's texts) or load that returned True; no other call
\* changes it.
C18_VocabularyProvenance ==
  /\ last.op \in {"init", "construct"} => vocab = <<>>
  /\ last.op = "train" => vocab = build_vocabulary(CallTexts, cfg.input_size)
  /\ (last.op = "load" /\ last.ret = "true") =>
       vocab = GetOr(File(last.src).data, "vocab")
  /\ (last.op \in {"backward", "predict", "learn_one", "save"}
        \/ (last.op = "load" /\ last.ret # "true")) =>
       vocab = last.pre.vocab

\* C19: for every epochs >= 0 and every corpus with a valid sample, train
\* returns a loss history, having made one forward/backward pass per valid
\* sample in each of the epochs.
C19_TrainReturnsHistory ==
  (last.op = "train" /\ ValidRecords(cfg, last.arg) # {}) =>
    /\ last.ret = "history"
    /\ last.passes = last.n * Cardinality(ValidRecords(cfg, last.arg))

\* The supplied labels of a learn_one call that are in their head's list.
KnownLabels(c, labels) ==
  {h \in LabelHeads : labels[h] # "" /\ InLabels(labels[h], LabelList(c, h))}

\* C20: learn_one returns True iff the vocabulary is not empty and a supplied
\* label is in its head's label list; returning False it changes nothing;
\* returning True it has made one forward and one backward pass on the text.
C20_LearnOneReturn ==
  last.op = "learn_one" =>
    /\ (last.ret = "true") <=>
         (last.pre.vocab # <<>> /\ KnownLabels(cfg, last.arg[2]) # {})
    /\ last.ret = "false" =>
         /\ Brain = last.pre.B
         /\ vocab = last.pre.vocab
         /\ learning_rate = last.pre.learning_rate
    /\ last.ret = "true" =>
         /\ last.passes = 1
         /\ last.x = text_to_vector(last.arg[1], vocab)

\* The vector and result of the forward pass the last call made.
LastForward == forward(last.pre.B, last.x)

\* C21: on a trained model the result of predict has one entry per
\* configured head; the entry's label is the label at the first index of the
\* head's largest probability, its confidence that probability, and its
\* score map has one entry per class of the head.
C21_PredictCoversHeads ==
  (everOK /\ last.op = "predict" /\ last.ret = "ok") =>
    /\ DOMAIN last.out = Configured
    /\ \A H \in Configured :
         /\ last.out[H].label = HeadLabels(cfg, H)[ArgMax(LastForward.outputs[H]) + 1]
         /\ last.out[H].confidence = MaxSeq(LastForward.outputs[H])
         /\ Cardinality(DOMAIN last.out[H].all_scores) = Len(last.pre.B.heads[H].b)

CorpusTokens == Concat(Tab(Len(last.arg), LAMBDA k : tokenize(last.arg[k].text)))

Min(a, b) == IF a <= b THEN a ELSE b

\* u comes before t in the order of descending count, first occurrence
\* deciding between equal counts.
Before(u, t, toks) ==
  \/ Count(u, toks) > Count(t, toks)
  \/ Count(u, toks) = Count(t, toks) /\ FirstPos(u, toks) < FirstPos(t, toks)

VocabularyRanked(voc, toks, max_size) ==
  /\ DOMAIN voc \subseteq TokenSet(toks)
  /\ Cardinality(DOMAIN voc) = Min(max_size, Cardinality(TokenSet(toks)))
  /\ {voc[t] : t \in DOMAIN voc} = 0..(Cardinality(DOMAIN voc) - 1)
  /\ \A t \in DOMAIN voc : \A u \in TokenSet(toks) :
       Before(u, t, toks) => (u \in DOMAIN voc /\ voc[u] < voc[t])

\* C22: the vocabulary build_vocabulary returns has min(max_size, number of
\* distinct tokens) entries with the indices 0..size-1, holds the most
\* frequent tokens, and orders them by descending frequency, equal
\* frequencies by first occurrence in the corpus.
C22_VocabularyByFrequency ==
  last.op = "train" => VocabularyRanked(vocab, CorpusTokens, cfg.input_size)

C22_Witness ==
  /\ last.op = "train"
  /\ Cardinality(TokenSet(CorpusTokens)) > cfg.input_size
  /\ vocab = [bye |-> 0, hi |-> 1]
  /\ FirstPos("hi", CorpusTokens) < FirstPos("bye", CorpusTokens)
  /\ Count("hi", CorpusTokens) = Count("ok", CorpusTokens)

CallText == IF last.op = "predict" THEN last.arg ELSE last.arg[1]

TermFrequencies(x, voc, toks) ==
  /\ Len(x) = VocabLen(voc)
  /\ \A t \in DOMAIN voc :
       x[voc[t] + 1] = RoundDiv(Count(t, toks) * ONE, IF toks = <<>> THEN 1 ELSE Len(toks))
  /\ SumSeq(x) <= ONE
  /\ toks = <<>> => ZeroVec(x)

\* C23: the vector of a text holds, at the index of every vocabulary token,
\* the token's occurrences divided by the number of tokens of the text
\* (out-of-vocabulary tokens counted), so its entries sum to at most 1; a
\* text without tokens gives the zero vector.
C23_VectorHoldsTermFrequencies ==
  (last.op \in {"predict", "learn_one"} /\ last.x # <<>>) =>
    TermFrequencies(last.x, vocab, tokenize(CallText))

C23_Witness ==
  /\ last.op = "predict"
  /\ last.ret = "ok"
  /\ last.arg = TLong
  /\ "ok" \notin DOMAIN vocab
  /\ last.x = <<RoundDiv(2 * ONE, 3), 0>>

\* C24: predict leaves the parameters, the momentum buffers, the vocabulary
\* and the learning rate as they were, and the result of forward holds z1
\* and the hidden activations beside the probabilities of every head.
C24_PredictReadsOnly ==
  last.op = "predict" =>
    /\ Brain = last.pre.B
    /\ vocab = last.pre.vocab
    /\ learning_rate = last.pre.learning_rate
    /\ last.passes = 1 =>
         /\ DOMAIN LastForward = {"z1", "hidden", "outputs"}
         /\ Len(LastForward.z1) = cfg.hidden_size
         /\ Len(LastForward.hidden) = cfg.hidden_size
         /\ DOMAIN LastForward.outputs = Configured

C24_Witness ==
  /\ last.op = "predict"
  /\ last.ret = "ok"
  /\ ~ZeroVec(vb1)
  /\ \E j \in 1..cfg.hidden_size : LastForward.z1[j] # b1[j]

\* The distance from 1 that rounding every entry to the fixed-point unit
\* can give the sum of n entries.
SumSlack(n) == (n + 1) \div 2

Distribution(probs, size) ==
  /\ Len(probs) = size
  /\ \A k \in 1..Len(probs) : probs[k] >= 0
  /\ SumSeq(probs) - ONE <= SumSlack(size)
  /\ ONE - SumSeq(probs) <= SumSlack(size)

DLogit(probs, idx, k) == IF k = idx + 1 THEN probs[k] - ONE ELSE probs[k]

Stepped(v_new, p_new, v_old, p_old, grad, lr) ==
  /\ v_new = Mul((9 * ONE) \div 10, v_old) + Mul(lr, grad)
  /\ p_new = p_old - v_new

HeadStepped(B1, B0, name, h, probs, idx, lr) ==
  /\ \A j \in 1..cfg.hidden_size : \A k \in 1..Len(probs) :
       Stepped(B1.v_heads[name].w[j][k], B1.heads[name].w[j][k],
               B0.v_heads[name].w[j][k], B0.heads[name].w[j][k],
               Mul(h[j], DLogit(probs, idx, k)), lr)
  /\ \A k \in 1..Len(probs) :
       Stepped(B1.v_heads[name].b[k], B1.heads[name].b[k],
               B0.v_heads[name].b[k], B0.heads[name].b[k],
               DLogit(probs, idx, k), lr)

\* dh[j], forced to 0 where z1[j] <= 0.
Masked(dh, z1, j) == IF z1[j] > 0 THEN dh[j] ELSE 0

HiddenStepped(B1, B0, x, z1, dh, lr) ==
  /\ \A i \in 1..cfg.input_size : \A j \in 1..cfg.hidden_size :
       Stepped(B1.vw1[i][j], B1.w1[i][j], B0.vw1[i][j], B0.w1[i][j],
               Mul(x[i], Masked(dh, z1, j)), lr)
  /\ \A j \in 1..cfg.hidden_size :
       Stepped(B1.vb1[j], B1.b1[j], B0.vb1[j], B0.b1[j], Masked(dh, z1, j), lr)

\* C28: every parameter update of a backward pass is a momentum-SGD step
\* with momentum 0.9 on the gradients h[j] * d_logits[k], d_logits[k],
\* x[i] * dh[j] and dh[j], dh[j] being 0 where z1[j] <= 0.
C28_MomentumSGD ==
  OnePass =>
    /\ \A t \in 1..Len(last.tgt) :
         HeadStepped(Brain, last.pre.B, last.tgt[t][1], LastForward.hidden,
                     LastForward.outputs[last.tgt[t][1]], last.tgt[t][2], last.lr)
    /\ HiddenStepped(Brain, last.pre.B, last.x, LastForward.z1, last.dh, last.lr)

C28_Witness ==
  /\ OnePass
  /\ last.tgt # <<>>
  /\ ~ZeroMatrix(last.pre.B.vw1)
  /\ \E j \in 1..cfg.hidden_size : LastForward.z1[j] > 0 /\ last.dh[j] # 0
  /\ \E j \in 1..cfg.hidden_size : LastForward.z1[j] <= 0 /\ last.dh[j] # 0

\* C29: every target index train or learn_one hands to backward for a
\* configured head is below the head's configured size.
C29_TargetIndexInRange ==
  /\ (last.op = "train" /\ last.passes > 0) =>
       \A m \in 1..Len(last.used) : \A j \in 1..Len(last.used[m]) :
         last.used[m][j][1] \in Configured =>
           last.used[m][j][2] < cfg.output_heads[last.used[m][j][1]]
  /\ (last.op = "learn_one" /\ last.passes > 0) =>
       \A j \in 1..Len(last.tgt) :
         last.tgt[j][1] \in Configured =>
           last.tgt[j][2] < cfg.output_heads[last.tgt[j][1]]

\* C30: a run of the train.py pipeline whose train call failed for lack of
\* valid samples leaves the weights file exactly as it was before the run.
C30_FailedTrainKeepsWeightsFile ==
  (last.op = "pipeline" /\ last.ret = "none") => disk = last.pre.disk

\* C25: with every call made under one exclusive lock, each backward pass
\* inside train uses the configured learning rate and each backward pass
\* inside learn_one uses 0.1 times it.
C25_LockedCallsUseTheirRate ==
  \A t \in Threads : \A k \in 1..Len(threads[t].rates) :
    /\ threads[t].op = "train" => threads[t].rates[k] = cfg.learning_rate
    /\ threads[t].op = "learn_one" => threads[t].rates[k] = ScaledRate(cfg.learning_rate)

\* C27: once all overlapping learn_one and train calls have returned,
\* learning_rate equals the configured value and no backward pass of train
\* has run with another rate.
C27_OverlapKeepsRate ==
  (\A t \in Threads : threads[t].pc = "returned") =>
    /\ learning_rate = cfg.learning_rate
    /\ \A t \in Threads : \A k \in 1..Len(threads[t].rates) :
         threads[t].op = "train" => threads[t].rates[k] = cfg.learning_rate

====
